---- MODULE Spec2Model ----
(***************************************************************************)
(* Verification model of the coursework repository:                        *)
(*   A6.2  hotel / reservation CRUD over whole-file JSON arrays            *)
(*   A5.2  computeSales.py (catalogue, sales aggregation, report order)    *)
(*   A4.2  computeStatistics.py, convertNumbers.py, wordCount.py           *)
(* Strings that the code inspects character by character are modelled as   *)
(* sequences of one-character strings; Ord gives their code-point order.   *)
(***************************************************************************)
EXTENDS Integers, Sequences, FiniteSets, TLC

VARIABLES
    \* ---- A6.2: the JSON files and the last call made against them
    hotels,          \* contents of data/hotels.json (a list of hotel records)
    reservations,    \* contents of data/reservations.json
    call,            \* the last operation invoked, with its arguments
    out,             \* what that operation printed ("" when nothing)
    customers,       \* contents of data/customers.json
    returned,        \* what that operation returned (None but for display_*)
    inv,             \* the invocations running side by side: position, locals
    log,             \* the load_data / save_data calls made so far, in order
    \* ---- A5.2 computeSales.py: one run of main()
    catalog_file,    \* the price catalogue file (missing, bad JSON, or JSON value)
    sales_file,      \* the sales record file (missing, bad JSON, or JSON value)
    pc,              \* where main() is
    prices,          \* dict title -> unit price built by build_price_catalog
    sales_data,      \* the list parse_sales iterates over
    idx,             \* rows of sales_data already handled
    grouped,         \* dict sale_id -> SaleGroup, in insertion order
    grand_total,
    error_count,
    report,          \* what format_report produced
    stderr,          \* main-level messages written by eprint
    results_file,    \* reports appended to SalesResults.txt by this run
    exit_code,       \* process exit status, NotExited while running
    \* ---- A4.2 token readers (parse_numbers, parse_integers, read_tokens)
    text,            \* the text of the input file
    parser,          \* which of the three readers runs
    line_no,         \* lines of the text already handled
    parsed,          \* the accepted values (numbers, values, tokens)
    parse_errors,    \* the line-numbered error entries
    parse_pc,
    \* ---- A4.2 computeStatistics.mode
    mode_input,      \* the list `values`
    freq,            \* dict value -> count, in insertion order
    max_count,
    modes,
    mode_k,          \* iterations done of the running loop
    mode_result,
    mode_pc,
    \* ---- A4.2 convertNumbers.to_binary / to_hexadecimal
    conv_fn,         \* which of the two functions runs
    conv_input,      \* the argument n
    conv_n,          \* the local n as the loop divides it
    conv_sign,
    conv_digits,     \* bits / digits, least significant first
    conv_result,
    conv_pc

raceVars == <<inv, log>>

crudVars == <<hotels, reservations, call, out, customers, returned, raceVars>>

salesVars == <<catalog_file, sales_file, pc, prices, sales_data, idx, grouped,
               grand_total, error_count, report, stderr, results_file,
               exit_code>>

textVars == <<text, parser, line_no, parsed, parse_errors, parse_pc>>

modeVars == <<mode_input, freq, max_count, modes, mode_k, mode_result, mode_pc>>

convVars == <<conv_fn, conv_input, conv_n, conv_sign, conv_digits,
              conv_result, conv_pc>>

utilVars == <<textVars, modeVars, convVars>>

vars == <<crudVars, salesVars, utilVars>>

-----------------------------------------------------------------------------
(* Bounds of the model *)

MaxHotels == 2      \* records create_hotel may append
MaxRecords == 2     \* records on file, customers and hotels together, in
                    \* the runs of the customer and hotel operations

HotelIds == {1, 2}
ReservationIds == {1, 2}
CustomerIds == {1}
HotelNames == {"HotelTest"}
Locations == {"CDMX"}
RoomCounts == {0, 1, 2}

-----------------------------------------------------------------------------
(* Generic list helpers (Python list semantics) *)

\* x in s
InSeq(x, s) == \E i \in 1..Len(s) : s[i] = x

\* number of occurrences of x in s
RECURSIVE CountIn(_, _)
CountIn(x, s) ==
    IF s = <<>> THEN 0
    ELSE (IF Head(s) = x THEN 1 ELSE 0) + CountIn(x, Tail(s))

\* list.remove(x): drops the first occurrence only
RECURSIVE ListRemove(_, _)
ListRemove(s, x) ==
    IF s = <<>> THEN <<>>
    ELSE IF Head(s) = x THEN Tail(s)
         ELSE <<Head(s)>> \o ListRemove(Tail(s), x)

-----------------------------------------------------------------------------
(* Strings as sequences of characters *)

\* the characters the model uses, in ascending code-point order
Alphabet ==
    <<" ", "+", "-", "0", "1", "2", "3", "4", "5", "6", "7", "8", "9",
      "A", "B", "C", "D", "E", "F", "N", "P", "Q", "Z",
      "a", "b", "d", "e", "n", "o", "x">>

Ord(c) == CHOOSE i \in 1..Len(Alphabet) : Alphabet[i] = c

DigitChars == <<"0", "1", "2", "3", "4", "5", "6", "7", "8", "9">>

IsDigit(c) == \E i \in 1..Len(DigitChars) : DigitChars[i] = c

DigitVal(c) == (CHOOSE i \in 1..Len(DigitChars) : DigitChars[i] = c) - 1

\* decimal digits of a natural number, most significant first
RECURSIVE StrOfNat(_)
StrOfNat(n) ==
    IF n < 10 THEN <<DigitChars[n + 1]>>
    ELSE StrOfNat(n \div 10) \o <<DigitChars[(n % 10) + 1]>>

\* str(n) for a Python int
str_int(n) == IF n < 0 THEN <<"-">> \o StrOfNat(-n) ELSE StrOfNat(n)

\* str.isspace() on the characters of the model
IsSpace(c) == c \in {" ", "\n"}

RECURSIVE LStrip(_)
LStrip(s) == IF s # <<>> /\ IsSpace(Head(s)) THEN LStrip(Tail(s)) ELSE s

RECURSIVE RStrip(_)
RStrip(s) ==
    IF s # <<>> /\ IsSpace(s[Len(s)])
    THEN RStrip(SubSeq(s, 1, Len(s) - 1))
    ELSE s

\* str.strip()
Strip(s) == RStrip(LStrip(s))

\* a literal without its optional sign
Unsigned(s) == IF s # <<>> /\ Head(s) \in {"+", "-"} THEN Tail(s) ELSE s

\* int(s) succeeds: surrounding blanks, an optional sign, one or more digits
IsIntLiteral(s) ==
    LET u == Unsigned(Strip(s))
    IN  u # <<>> /\ \A i \in 1..Len(u) : IsDigit(u[i])

RECURSIVE NatOfDigits(_)
NatOfDigits(u) ==
    IF u = <<>> THEN 0
    ELSE NatOfDigits(SubSeq(u, 1, Len(u) - 1)) * 10 + DigitVal(u[Len(u)])

\* int(s) for a literal s
IntOfLiteral(s) ==
    LET t == Strip(s)
    IN  IF Head(t) = "-" THEN -NatOfDigits(Unsigned(t))
        ELSE NatOfDigits(Unsigned(t))

\* a < b for Python strings (code-point lexicographic order)
RECURSIVE StrLess(_, _)
StrLess(a, b) ==
    IF b = <<>> THEN FALSE
    ELSE IF a = <<>> THEN TRUE
    ELSE IF Head(a) = Head(b) THEN StrLess(Tail(a), Tail(b))
    ELSE Ord(Head(a)) < Ord(Head(b))

-----------------------------------------------------------------------------
(* JSON values as json.load returns them *)

Absent == [t |-> "absent"]              \* key not present in a dict
JNull == [t |-> "null"]                 \* None
JInt(n) == [t |-> "int", n |-> n]
JBigInt == [t |-> "bigint"]             \* an int beyond the range of float
JStr(s) == [t |-> "str", s |-> s]
JList(items) == [t |-> "list", items |-> items]
JObject == [t |-> "object"]             \* a dict without the expected keys

Missing == [t |-> "missing"]            \* no such file (FileNotFoundError)
InvalidJson == [t |-> "invalidjson"]    \* file is not JSON (JSONDecodeError)

NoneStr == <<"N", "o", "n", "e">>

\* dict.get(key): None when the key is absent
Get(v) == IF v = Absent THEN JNull ELSE v

\* dict.get(key, ""): the default when the key is absent
GetOrEmpty(v) == IF v = Absent THEN JStr(<<>>) ELSE v

\* bool(v)
Truthy(v) ==
    CASE v.t = "null" -> FALSE
      [] v.t = "str" -> v.s # <<>>
      [] v.t = "int" -> v.n # 0
      [] OTHER -> TRUE

\* str(v) for the scalar values a SALE_ID or SALE_Date takes here
py_str(v) ==
    CASE v.t = "null" -> NoneStr
      [] v.t = "int" -> str_int(v.n)
      [] v.t = "str" -> v.s

\* float(v): the number, or the exception float() raises
py_float(v) ==
    CASE v.t = "int" -> [ok |-> TRUE, val |-> v.n]
      [] v.t = "str" ->
           IF IsIntLiteral(v.s) THEN [ok |-> TRUE, val |-> IntOfLiteral(v.s)]
           ELSE [ok |-> FALSE, exc |-> "ValueError"]
      [] v.t = "bigint" -> [ok |-> FALSE, exc |-> "OverflowError"]
      [] OTHER -> [ok |-> FALSE, exc |-> "TypeError"]

\* the exceptions `except (TypeError, ValueError)` catches
Caught(exc) == exc \in {"TypeError", "ValueError"}

-----------------------------------------------------------------------------
(* A6.2 models/hotel.py, models/reservation.py *)

NoCall == [op |-> "none"]

\* index of the record the `for hotel in hotels` scan stops at, 0 if none
FirstHotelIndex(hs, hotel_id) ==
    IF \E i \in 1..Len(hs) : hs[i].hotel_id = hotel_id
    THEN CHOOSE i \in 1..Len(hs) :
            /\ hs[i].hotel_id = hotel_id
            /\ \A j \in 1..(i - 1) : hs[j].hotel_id # hotel_id
    ELSE 0

\* (mutation of the capacity test: off by one, a full hotel still accepts)
NoRoomsAvailable_OffByOne(hotel) == hotel.rooms < Len(hotel.reservations)

\* (mutation of the capacity test: only a hotel without rooms refuses, the
\* reservations it already holds are not counted)
NoRoomsAvailable_IgnoresBooked(hotel) == hotel.rooms <= 0

\* the capacity test of create_reservation
NoRoomsAvailable(hotel) == hotel.rooms <= Len(hotel.reservations)

\* Hotel.create_hotel: load, append a record with an empty list, save
create_hotel(hotel_id, name, location, rooms) ==
    /\ Len(hotels) < MaxHotels
    /\ hotels' = Append(hotels, [hotel_id |-> hotel_id, name |-> name,
                                 location |-> location, rooms |-> rooms,
                                 reservations |-> <<>>])
    /\ call' = [op |-> "create_hotel", hotel_id |-> hotel_id, name |-> name,
                location |-> location, rooms |-> rooms]
    /\ out' = ""
    /\ UNCHANGED reservations
    /\ returned' = JNull
    /\ UNCHANGED customers
    /\ UNCHANGED <<raceVars, salesVars, utilVars>>

\* (mutation of create_reservation: the record is appended and saved before
\* the hotels are scanned, so a refused call still leaves it on file)
create_reservation_RecordsFirst(reservation_id, customer_id, hotel_id) ==
    LET i == FirstHotelIndex(hotels, hotel_id) IN
    /\ call' = [op |-> "create_reservation", reservation_id |-> reservation_id,
                customer_id |-> customer_id, hotel_id |-> hotel_id]
    /\ reservations' = Append(reservations,
            [reservation_id |-> reservation_id,
             customer_id |-> customer_id, hotel_id |-> hotel_id])
    /\ IF i = 0
       THEN /\ out' = "Hotel not found"
            /\ UNCHANGED hotels
       ELSE IF NoRoomsAvailable(hotels[i])
       THEN /\ out' = "No rooms available"
            /\ UNCHANGED hotels
       ELSE /\ hotels' = [hotels EXCEPT ![i].reservations =
                              Append(@, reservation_id)]
            /\ out' = ""
    /\ returned' = JNull
    /\ UNCHANGED customers
    /\ UNCHANGED <<raceVars, salesVars, utilVars>>

\* Reservation.create_reservation
create_reservation(reservation_id, customer_id, hotel_id) ==
    LET i == FirstHotelIndex(hotels, hotel_id) IN
    /\ call' = [op |-> "create_reservation", reservation_id |-> reservation_id,
                customer_id |-> customer_id, hotel_id |-> hotel_id]
    /\ IF i = 0
       THEN /\ out' = "Hotel not found"
            /\ UNCHANGED <<hotels, reservations>>
       ELSE IF NoRoomsAvailable(hotels[i])
       THEN /\ out' = "No rooms available"
            /\ UNCHANGED <<hotels, reservations>>
       ELSE /\ reservations' = Append(reservations,
                    [reservation_id |-> reservation_id,
                     customer_id |-> customer_id, hotel_id |-> hotel_id])
            /\ hotels' = [hotels EXCEPT ![i].reservations =
                              Append(@, reservation_id)]
            /\ out' = ""
    /\ returned' = JNull
    /\ UNCHANGED customers
    /\ UNCHANGED <<raceVars, salesVars, utilVars>>

\* the per-hotel step of cancel_reservation's loop
CancelInHotel(hotel, reservation_id) ==
    IF InSeq(reservation_id, hotel.reservations)
    THEN [hotel EXCEPT !.reservations = ListRemove(@, reservation_id)]
    ELSE hotel

\* Reservation.cancel_reservation
cancel_reservation(reservation_id) ==
    LET Keep(r) == r.reservation_id # reservation_id IN
    /\ reservations' = SelectSeq(reservations, Keep)
    /\ hotels' = [i \in 1..Len(hotels) |->
                      CancelInHotel(hotels[i], reservation_id)]
    /\ call' = [op |-> "cancel_reservation", reservation_id |-> reservation_id]
    /\ out' = ""
    /\ returned' = JNull
    /\ UNCHANGED customers
    /\ UNCHANGED <<raceVars, salesVars, utilVars>>

CreateHotel ==
    \E h \in HotelIds, n \in HotelNames, l \in Locations, k \in RoomCounts :
        create_hotel(h, n, l, k)

CreateReservation ==
    \E r \in ReservationIds, c \in CustomerIds, h \in HotelIds :
        create_reservation(r, c, h)

CancelReservation ==
    \E r \in ReservationIds : cancel_reservation(r)

-----------------------------------------------------------------------------
(* A6.2 models/customer.py and the rest of models/hotel.py *)

\* a keyword argument passed with a value; an argument left at its default
\* is None (JNull)
Given(v) == [t |-> "given", v |-> v]

\* `if name:` on a str argument: None and "" are false
TruthyStr(a) == a # JNull /\ a.v # ""

\* `if rooms:` on an int argument: None and 0 are false
TruthyInt(a) == a # JNull /\ a.v # 0

\* the dict a display_* call returns
Found(record) == [t |-> "dict", record |-> record]

\* index of the record the `for customer in customers` scan stops at, 0 if
\* none
FirstCustomerIndex(cs, customer_id) ==
    IF \E i \in 1..Len(cs) : cs[i].customer_id = customer_id
    THEN CHOOSE i \in 1..Len(cs) :
            /\ cs[i].customer_id = customer_id
            /\ \A j \in 1..(i - 1) : cs[j].customer_id # customer_id
    ELSE 0

\* Customer.create_customer: load, append, save
create_customer(customer_id, name, email) ==
    /\ Len(customers) + Len(hotels) < MaxRecords
    /\ customers' = Append(customers, [customer_id |-> customer_id,
                                       name |-> name, email |-> email])
    /\ call' = [op |-> "create_customer", customer_id |-> customer_id,
                name |-> name, email |-> email]
    /\ out' = ""
    /\ returned' = JNull
    /\ UNCHANGED <<hotels, reservations>>
    /\ UNCHANGED <<raceVars, salesVars, utilVars>>

\* Customer.delete_customer: keeps the records with another id
delete_customer(customer_id) ==
    LET Keep(c) == c.customer_id # customer_id IN
    /\ customers' = SelectSeq(customers, Keep)
    /\ call' = [op |-> "delete_customer", customer_id |-> customer_id]
    /\ out' = ""
    /\ returned' = JNull
    /\ UNCHANGED <<hotels, reservations>>
    /\ UNCHANGED <<raceVars, salesVars, utilVars>>

\* what Customer.display_customer returns on the file contents cs
DisplayedCustomer(cs, customer_id) ==
    LET i == FirstCustomerIndex(cs, customer_id) IN
    IF i = 0 THEN JNull ELSE Found(cs[i])

\* Customer.display_customer
display_customer(customer_id) ==
    /\ returned' = DisplayedCustomer(customers, customer_id)
    /\ call' = [op |-> "display_customer", customer_id |-> customer_id]
    /\ out' = ""
    /\ UNCHANGED <<customers, hotels, reservations>>
    /\ UNCHANGED <<raceVars, salesVars, utilVars>>

\* the body of modify_customer's loop on one record
ModifiedCustomer(customer, customer_id, name, email) ==
    IF customer.customer_id # customer_id THEN customer
    ELSE [customer EXCEPT
            !.name = IF TruthyStr(name) THEN name.v ELSE @,
            !.email = IF TruthyStr(email) THEN email.v ELSE @]

\* Customer.modify_customer
modify_customer(customer_id, name, email) ==
    /\ customers' = [i \in 1..Len(customers) |->
                        ModifiedCustomer(customers[i], customer_id, name, email)]
    /\ call' = [op |-> "modify_customer", customer_id |-> customer_id,
                name |-> name, email |-> email]
    /\ out' = ""
    /\ returned' = JNull
    /\ UNCHANGED <<hotels, reservations>>
    /\ UNCHANGED <<raceVars, salesVars, utilVars>>

\* Hotel.delete_hotel: keeps the records with another id
delete_hotel(hotel_id) ==
    LET Keep(h) == h.hotel_id # hotel_id IN
    /\ hotels' = SelectSeq(hotels, Keep)
    /\ call' = [op |-> "delete_hotel", hotel_id |-> hotel_id]
    /\ out' = ""
    /\ returned' = JNull
    /\ UNCHANGED <<customers, reservations>>
    /\ UNCHANGED <<raceVars, salesVars, utilVars>>

\* what Hotel.display_hotel returns on the file contents hs
DisplayedHotel(hs, hotel_id) ==
    LET i == FirstHotelIndex(hs, hotel_id) IN
    IF i = 0 THEN JNull ELSE Found(hs[i])

\* Hotel.display_hotel
display_hotel(hotel_id) ==
    /\ returned' = DisplayedHotel(hotels, hotel_id)
    /\ call' = [op |-> "display_hotel", hotel_id |-> hotel_id]
    /\ out' = ""
    /\ UNCHANGED <<customers, hotels, reservations>>
    /\ UNCHANGED <<raceVars, salesVars, utilVars>>

\* the body of modify_hotel's loop on one record
ModifiedHotel(hotel, hotel_id, name, location, rooms) ==
    IF hotel.hotel_id # hotel_id THEN hotel
    ELSE [hotel EXCEPT
            !.name = IF TruthyStr(name) THEN name.v ELSE @,
            !.location = IF TruthyStr(location) THEN location.v ELSE @,
            !.rooms = IF TruthyInt(rooms) THEN rooms.v ELSE @]

\* Hotel.modify_hotel
modify_hotel(hotel_id, name, location, rooms) ==
    /\ hotels' = [i \in 1..Len(hotels) |->
                     ModifiedHotel(hotels[i], hotel_id, name, location, rooms)]
    /\ call' = [op |-> "modify_hotel", hotel_id |-> hotel_id, name |-> name,
                location |-> location, rooms |-> rooms]
    /\ out' = ""
    /\ returned' = JNull
    /\ UNCHANGED <<customers, reservations>>
    /\ UNCHANGED <<raceVars, salesVars, utilVars>>

\* the arguments the calls are made with
StoreCustomerIds == {1, 2}
CustomerNames == {"Juan", "Ana"}
Emails == {"juan@test.com"}
NameArgs == {JNull, Given(""), Given("Ana")}
EmailArgs == {JNull, Given(""), Given("ana@test.com")}
HotelNameArgs == {JNull, Given(""), Given("UpdatedHotel")}
LocationArgs == {JNull, Given("GDL")}
RoomArgs == {JNull, Given(0), Given(1)}

CreateCustomer ==
    \E c \in StoreCustomerIds, n \in CustomerNames, m \in Emails :
        create_customer(c, n, m)

DeleteCustomer == \E c \in StoreCustomerIds : delete_customer(c)

DisplayCustomer == \E c \in StoreCustomerIds : display_customer(c)

ModifyCustomer ==
    \E c \in StoreCustomerIds, n \in NameArgs, m \in EmailArgs :
        modify_customer(c, n, m)

\* create_hotel while the two files together hold fewer than MaxRecords
CreateHotelInStore ==
    /\ Len(customers) + Len(hotels) < MaxRecords
    /\ CreateHotel

DeleteHotel == \E h \in HotelIds : delete_hotel(h)

DisplayHotel == \E h \in HotelIds : display_hotel(h)

ModifyHotel ==
    \E h \in HotelIds, n \in HotelNameArgs, l \in LocationArgs,
       k \in RoomArgs :
        modify_hotel(h, n, l, k)

-----------------------------------------------------------------------------
(* A6.2 two invocations at once: every load_data and save_data is a step *)

\* the invocations that run side by side
Procs == {1, 2}

\* load_data on an existing, well-formed file: the list it holds
load_data(file) == file

\* (mutation of save_data: the records the file already holds and the caller
\* does not are kept in front of the caller's list)
save_data_Merge(file, data) ==
    LET NotInData(r) == ~InSeq(r, data) IN SelectSeq(file, NotInData) \o data

\* save_data: the file's new contents are the caller's list, whatever the
\* file held
save_data(file, data) == data

\* an invocation that has not been given: no operation, nothing loaded
NoInvocation ==
    [op |-> "none", pc |-> "done", record |-> JNull, out |-> "",
     customers |-> <<>>, reservations |-> <<>>, hotels |-> <<>>]

\* a call of create_customer or create_reservation about to run its first
\* line; `record` is the dict it will append
Invocation(op, record) ==
    [op |-> op, pc |-> "load", record |-> record, out |-> "",
     customers |-> <<>>, reservations |-> <<>>, hotels |-> <<>>]

Event(p, what, file) == [proc |-> p, what |-> what, file |-> file]

\* create_customer: customers = load_data(CUSTOMERS_FILE)
load_customers(p) ==
    /\ inv[p].op = "create_customer"
    /\ inv[p].pc = "load"
    /\ inv' = [inv EXCEPT ![p].customers = load_data(customers),
                          ![p].pc = "save"]
    /\ log' = Append(log, Event(p, "load", "customers"))
    /\ UNCHANGED <<hotels, reservations, customers, call, out, returned>>
    /\ UNCHANGED <<salesVars, utilVars>>

\* create_customer: customers.append(customer); save_data(CUSTOMERS_FILE, ..)
save_customers(p) ==
    /\ inv[p].op = "create_customer"
    /\ inv[p].pc = "save"
    /\ LET data == Append(inv[p].customers, inv[p].record) IN
       /\ customers' = save_data(customers, data)
       /\ inv' = [inv EXCEPT ![p].customers = data, ![p].pc = "done"]
    /\ log' = Append(log, Event(p, "save", "customers"))
    /\ UNCHANGED <<hotels, reservations, call, out, returned>>
    /\ UNCHANGED <<salesVars, utilVars>>

\* create_reservation: reservations = load_data(RESERVATIONS_FILE)
load_reservations(p) ==
    /\ inv[p].op = "create_reservation"
    /\ inv[p].pc = "load"
    /\ inv' = [inv EXCEPT ![p].reservations = load_data(reservations),
                          ![p].pc = "load_hotels"]
    /\ log' = Append(log, Event(p, "load", "reservations"))
    /\ UNCHANGED <<hotels, reservations, customers, call, out, returned>>
    /\ UNCHANGED <<salesVars, utilVars>>

\* create_reservation: hotels = load_data(HOTELS_FILE), then the scan of the
\* loaded list up to the two appends, which touch no file
load_hotels(p) ==
    /\ inv[p].op = "create_reservation"
    /\ inv[p].pc = "load_hotels"
    /\ LET hs == load_data(hotels)
           i == FirstHotelIndex(hs, inv[p].record.hotel_id)
       IN inv' = [inv EXCEPT ![p] =
             IF i = 0
             THEN [@ EXCEPT !.hotels = hs, !.out = "Hotel not found",
                            !.pc = "done"]
             ELSE IF NoRoomsAvailable(hs[i])
             THEN [@ EXCEPT !.hotels = hs, !.out = "No rooms available",
                            !.pc = "done"]
             ELSE [@ EXCEPT
                     !.reservations = Append(@, inv[p].record),
                     !.hotels = [hs EXCEPT ![i].reservations =
                                    Append(@, inv[p].record.reservation_id)],
                     !.pc = "save_reservations"]]
    /\ log' = Append(log, Event(p, "load", "hotels"))
    /\ UNCHANGED <<hotels, reservations, customers, call, out, returned>>
    /\ UNCHANGED <<salesVars, utilVars>>

\* create_reservation: save_data(RESERVATIONS_FILE, reservations)
save_reservations(p) ==
    /\ inv[p].op = "create_reservation"
    /\ inv[p].pc = "save_reservations"
    /\ reservations' = save_data(reservations, inv[p].reservations)
    /\ inv' = [inv EXCEPT ![p].pc = "save_hotels"]
    /\ log' = Append(log, Event(p, "save", "reservations"))
    /\ UNCHANGED <<hotels, customers, call, out, returned>>
    /\ UNCHANGED <<salesVars, utilVars>>

\* create_reservation: save_data(HOTELS_FILE, hotels); return
save_hotels(p) ==
    /\ inv[p].op = "create_reservation"
    /\ inv[p].pc = "save_hotels"
    /\ hotels' = save_data(hotels, inv[p].hotels)
    /\ inv' = [inv EXCEPT ![p].pc = "done"]
    /\ log' = Append(log, Event(p, "save", "hotels"))
    /\ UNCHANGED <<reservations, customers, call, out, returned>>
    /\ UNCHANGED <<salesVars, utilVars>>

LoadCustomers == \E p \in Procs : load_customers(p)

SaveCustomers == \E p \in Procs : save_customers(p)

LoadReservations == \E p \in Procs : load_reservations(p)

LoadHotels == \E p \in Procs : load_hotels(p)

SaveReservations == \E p \in Procs : save_reservations(p)

SaveHotels == \E p \in Procs : save_hotels(p)

\* the calls the two invocations may be
Invocations ==
    {Invocation("create_customer",
                [customer_id |-> c, name |-> "Juan", email |-> m])
        : c \in StoreCustomerIds, m \in Emails}
    \cup
    {Invocation("create_reservation",
                [reservation_id |-> r, customer_id |-> c, hotel_id |-> h])
        : r \in ReservationIds, c \in CustomerIds, h \in HotelIds}

\* the hotel on file when the invocations start
RaceRooms == {1, 2}

-----------------------------------------------------------------------------
(* A5.2 computeSales.py *)

SortKeyWidth == 12      \* the width of the 012d format in sale_sort_key
UsageExit == 2          \* main: wrong number of arguments
WriteFailedExit == 1    \* main: the results file cannot be written
UncaughtExit == 1       \* the interpreter's status for an uncaught exception
SuccessExit == 0
NotExited == -1         \* main has not returned yet
ExpectedArgc == 3       \* len(sys.argv) main insists on

EmptyDict == [k \in {} |-> 0]

\* d[k] = v on a dict: a new key is added, an existing one overwritten
DictPut(d, k, v) == [x \in DOMAIN d \cup {k} |-> IF x = k THEN v ELSE d[x]]

\* load_json_file: the decoded value, or None after reporting the failure
load_json_file(file) ==
    IF file.t \in {"missing", "invalidjson"} THEN JNull ELSE file

\* what load_json_file writes to stderr
LoadMessages(file) ==
    CASE file.t = "missing" -> <<"File not found">>
      [] file.t = "invalidjson" -> <<"Invalid JSON format">>
      [] OTHER -> <<>>

\* main: `if data is None: data = []`
NoneToEmptyList(v) == IF v = JNull THEN JList(<<>>) ELSE v

\* the loop of build_price_catalog over the catalogue entries
RECURSIVE BuildPrices(_, _)
BuildPrices(items, acc) ==
    IF items = <<>> THEN [crashed |-> FALSE, prices |-> acc]
    ELSE LET product == Head(items) IN
         IF product.t # "dict" THEN BuildPrices(Tail(items), acc)
         ELSE LET product_title == Get(product.title)
                  product_price == Get(product.price)
              IN  IF \/ product_title.t # "str"
                     \/ Strip(product_title.s) = <<>>
                  THEN BuildPrices(Tail(items), acc)
                  ELSE LET price_num == py_float(product_price) IN
                       IF price_num.ok
                       THEN BuildPrices(Tail(items),
                               DictPut(acc, product_title.s, price_num.val))
                       ELSE IF Caught(price_num.exc)
                       THEN BuildPrices(Tail(items), acc)
                       ELSE [crashed |-> TRUE, prices |-> acc]

build_price_catalog(catalog_data) ==
    IF catalog_data.t # "list" THEN [crashed |-> FALSE, prices |-> EmptyDict]
    ELSE BuildPrices(catalog_data.items, EmptyDict)

SaleItem(product, quantity, unit_price) ==
    [product |-> product, quantity |-> quantity, unit_price |-> unit_price]

\* (mutation of line_total: the quantity is added instead of multiplied)
line_total_Added(item) == item.quantity + item.unit_price

\* SaleItem.line_total
line_total(item) == item.quantity * item.unit_price

RECURSIVE SumLineTotals(_)
SumLineTotals(items) ==
    IF items = <<>> THEN 0
    ELSE line_total(Head(items)) + SumLineTotals(Tail(items))

\* SaleGroup.subtotal
subtotal(group) == SumLineTotals(group.items)

\* position of the group with this key in the dict, 0 when it has none
GroupIndex(g, key) ==
    IF \E i \in 1..Len(g) : g[i].sale_id = key
    THEN CHOOSE i \in 1..Len(g) : g[i].sale_id = key
    ELSE 0

\* one iteration of parse_sales' loop up to the construction of the item:
\* the row is skipped as an error, raises out of the function, or yields an
\* item for the group keyed str(SALE_ID)
RowOutcome(row, prs) ==
    IF row.t # "dict" THEN [kind |-> "error"]
    ELSE LET sale_id == Get(row.SALE_ID)
             sale_date == GetOrEmpty(row.SALE_Date)
             product == Get(row.Product)
             quantity == Get(row.Quantity)
         IN  IF sale_id.t = "null" THEN [kind |-> "error"]
             ELSE IF product.t # "str" \/ Strip(product.s) = <<>>
             THEN [kind |-> "error"]
             ELSE IF product.s \notin DOMAIN prs THEN [kind |-> "error"]
             ELSE LET qty_num == py_float(quantity) IN
                  IF ~qty_num.ok
                  THEN IF Caught(qty_num.exc) THEN [kind |-> "error"]
                       ELSE [kind |-> "raise", exc |-> qty_num.exc]
                  ELSE [kind |-> "item",
                        sale_id_key |-> py_str(sale_id),
                        sale_date |-> sale_date,
                        item |-> SaleItem(product.s, qty_num.val,
                                          prs[product.s])]

\* lines 167-177: create the group on first sight, record the date while
\* the group has none, append the item
AddToGroup(g, sale_id_key, sale_date, item) ==
    LET g1 == IF GroupIndex(g, sale_id_key) = 0
              THEN Append(g, [sale_id |-> sale_id_key,
                              sale_date |-> py_str(sale_date),
                              items |-> <<>>])
              ELSE g
        i  == GroupIndex(g1, sale_id_key)
        g2 == IF g1[i].sale_date = <<>> /\ Truthy(sale_date)
              THEN [g1 EXCEPT ![i].sale_date = py_str(sale_date)]
              ELSE g1
    IN  [g2 EXCEPT ![i].items = Append(@, item)]

\* f"{n:012d}": zero padded to the width, the sign counted in it
Format012d(n) ==
    LET sign == IF n < 0 THEN <<"-">> ELSE <<>>
        digits == StrOfNat(IF n < 0 THEN -n ELSE n)
        pad == SortKeyWidth - Len(sign) - Len(digits)
    IN  sign \o [i \in 1..pad |-> "0"] \o digits

sale_sort_key(sale_id) ==
    IF IsIntLiteral(sale_id) THEN <<0, Format012d(IntOfLiteral(sale_id))>>
    ELSE <<1, sale_id>>

\* k1 < k2 for the (int, str) tuples sale_sort_key returns
KeyLess(k1, k2) ==
    \/ k1[1] < k2[1]
    \/ k1[1] = k2[1] /\ StrLess(k1[2], k2[2])

\* sorted(..., key=sale_sort_key) is stable: x goes after every element
\* whose key is not greater
RECURSIVE InsertByKey(_, _)
InsertByKey(sorted, x) ==
    IF sorted = <<>> THEN <<x>>
    ELSE IF KeyLess(sale_sort_key(x), sale_sort_key(Head(sorted)))
    THEN <<x>> \o sorted
    ELSE <<Head(sorted)>> \o InsertByKey(Tail(sorted), x)

RECURSIVE SortedBySaleKey(_)
SortedBySaleKey(keys) ==
    IF keys = <<>> THEN <<>>
    ELSE InsertByKey(SortedBySaleKey(SubSeq(keys, 1, Len(keys) - 1)),
                     keys[Len(keys)])

\* format_report: the header counts, one block per group in sorted order,
\* the grand total
format_report(g, total, errors) ==
    LET keys == SortedBySaleKey([i \in 1..Len(g) |-> g[i].sale_id])
    IN  [sales |-> Len(g),
         errors |-> errors,
         groups |-> [k \in 1..Len(keys) |->
                        LET sale == g[GroupIndex(g, keys[k])]
                        IN  [sale_id |-> sale.sale_id,
                             sale_date |-> sale.sale_date,
                             items |-> sale.items,
                             subtotal |-> subtotal(sale)]],
         grand_total |-> total]

NoReport == [sales |-> 0, errors |-> 0, groups |-> <<>>, grand_total |-> 0]

ArgCounts == {2, 3}

\* main, lines 236-254 and parse_sales, lines 117-123: check the argument
\* count, load both files, build the catalogue and enter parse_sales
main_start ==
    /\ pc = "start"
    /\ \E argc \in ArgCounts :
        IF argc # ExpectedArgc
        THEN /\ stderr' = Append(stderr, "Usage")
             /\ exit_code' = UsageExit
             /\ pc' = "exited"
             /\ UNCHANGED <<prices, sales_data, error_count>>
        ELSE LET catalog_data == NoneToEmptyList(load_json_file(catalog_file))
                 loaded_sales == NoneToEmptyList(load_json_file(sales_file))
                 built == build_price_catalog(catalog_data)
                 messages == LoadMessages(catalog_file)
                                \o LoadMessages(sales_file)
                                \o (IF catalog_data.t # "list"
                                    THEN <<"Price catalogue must be a list">>
                                    ELSE <<>>)
             IN  /\ prices' = built.prices
                 /\ sales_data' = loaded_sales
                 /\ IF built.crashed
                    THEN /\ pc' = "crashed"
                         /\ exit_code' = UncaughtExit
                         /\ stderr' = Append(stderr \o messages, "Traceback")
                         /\ UNCHANGED error_count
                    ELSE IF loaded_sales.t # "list"
                    THEN /\ pc' = "report"
                         /\ error_count' = 1
                         /\ stderr' = Append(stderr \o messages,
                                             "Sales record must be a list")
                         /\ UNCHANGED exit_code
                    ELSE /\ pc' = "rows"
                         /\ stderr' = stderr \o messages
                         /\ UNCHANGED <<exit_code, error_count>>
    /\ UNCHANGED <<catalog_file, sales_file, idx, grouped, grand_total,
                   report, results_file>>
    /\ UNCHANGED <<crudVars, utilVars>>

\* parse_sales, lines 125-178: one iteration of the loop over the rows
parse_sales_row ==
    /\ pc = "rows"
    /\ idx < Len(sales_data.items)
    /\ LET outcome == RowOutcome(sales_data.items[idx + 1], prices) IN
         CASE outcome.kind = "error" ->
                /\ error_count' = error_count + 1
                /\ idx' = idx + 1
                /\ UNCHANGED <<grouped, grand_total, pc, exit_code, stderr>>
           [] outcome.kind = "raise" ->
                /\ pc' = "crashed"
                /\ exit_code' = UncaughtExit
                /\ stderr' = Append(stderr, "Traceback")
                /\ UNCHANGED <<grouped, grand_total, error_count, idx>>
           [] outcome.kind = "item" ->
                /\ grouped' = AddToGroup(grouped, outcome.sale_id_key,
                                         outcome.sale_date, outcome.item)
                /\ grand_total' = grand_total + line_total(outcome.item)
                /\ idx' = idx + 1
                /\ UNCHANGED <<error_count, pc, exit_code, stderr>>
    /\ UNCHANGED <<catalog_file, sales_file, prices, sales_data, report,
                   results_file>>
    /\ UNCHANGED <<crudVars, utilVars>>

\* parse_sales returns (line 180); main formats and prints the report
\* (lines 256-259)
main_report ==
    /\ \/ pc = "rows" /\ idx = Len(sales_data.items)
       \/ pc = "report"
    /\ report' = format_report(grouped, grand_total, error_count)
    /\ pc' = "write"
    /\ UNCHANGED <<catalog_file, sales_file, prices, sales_data, idx, grouped,
                   grand_total, error_count, stderr, results_file, exit_code>>
    /\ UNCHANGED <<crudVars, utilVars>>

\* main, lines 261-268: append the report to the results file
main_write ==
    /\ pc = "write"
    /\ \/ /\ results_file' = Append(results_file, report)
          /\ exit_code' = SuccessExit
          /\ UNCHANGED stderr
       \/ /\ stderr' = Append(stderr, "Could not write results file")
          /\ exit_code' = WriteFailedExit
          /\ UNCHANGED results_file
    /\ pc' = "exited"
    /\ UNCHANGED <<catalog_file, sales_file, prices, sales_data, idx, grouped,
                   grand_total, error_count, report>>
    /\ UNCHANGED <<crudVars, utilVars>>

-----------------------------------------------------------------------------
(* Inputs of the sales runs *)

MaxRows == 3          \* rows in a sales file of the validation runs
MaxDateRows == 3      \* rows in a sales file of the date runs
MaxOrderRows == 3     \* rows in a sales file of the ordering runs

SeqsUpTo(S, n) == UNION {[1..k -> S] : k \in 0..n}

Pen == <<"P">>
Quill == <<"Q">>
Day1 == <<"d", "1">>
Day2 == <<"d", "2">>

CatalogEntry(title, price) == [t |-> "dict", title |-> title, price |-> price]

Row(sale_id, sale_date, product, quantity) ==
    [t |-> "dict", SALE_ID |-> sale_id, SALE_Date |-> sale_date,
     Product |-> product, Quantity |-> quantity]

GoodCatalog ==
    JList(<<CatalogEntry(JStr(Pen), JInt(2)),
            CatalogEntry(JStr(Quill), JInt(3))>>)

CatalogFiles ==
    { Missing, InvalidJson, JObject,
      GoodCatalog,
      \* a price given as text, one product only
      JList(<<CatalogEntry(JStr(Pen), JStr(<<"5">>))>>),
      \* the same title twice
      JList(<<CatalogEntry(JStr(Pen), JInt(2)),
              CatalogEntry(JStr(Pen), JInt(4))>>),
      \* malformed entries around a good one
      JList(<<JInt(7),
              CatalogEntry(JStr(<<" ">>), JInt(1)),
              CatalogEntry(Absent, JInt(1)),
              CatalogEntry(JStr(Pen), JStr(<<"x">>)),
              CatalogEntry(JStr(Quill), JNull),
              CatalogEntry(JStr(Quill), JInt(3))>>) }

\* rows that exercise every validation branch of parse_sales
ValidationRows ==
    { Row(JInt(1), Absent, JStr(Pen), JInt(2)),
      Row(JStr(<<"1">>), Absent, JStr(Pen), JInt(2)),
      Row(JInt(2), Absent, JStr(Pen), JInt(2)),
      Row(JInt(1), Absent, JStr(Quill), JInt(-1)),
      Row(JInt(1), Absent, JStr(Pen), JStr(<<"3">>)),
      JInt(5),
      Row(Absent, Absent, JStr(Pen), JInt(2)),
      Row(JInt(1), Absent, JStr(<<"Z">>), JInt(2)),
      Row(JInt(1), Absent, JStr(<<" ">>), JInt(2)),
      Row(JInt(1), Absent, JInt(7), JInt(2)),
      Row(JInt(1), Absent, JStr(Pen), JStr(<<"x">>)),
      Row(JInt(1), Absent, JStr(Pen), Absent),
      Row(JInt(1), Absent, JStr(Pen), JBigInt) }

\* rows that differ in the sale and in how the date is given
DateRows ==
    { Row(JInt(s), d, JStr(Pen), JInt(1)) :
        s \in {1, 2},
        d \in {Absent, JNull, JStr(<<>>), JStr(Day1), JStr(Day2)} }
    \cup { Row(JInt(1), JStr(Day2), JStr(<<"Z">>), JInt(1)) }

\* rows that differ in the kind of sale identifier
OrderRows ==
    { Row(s, Absent, JStr(Pen), JInt(1)) :
        s \in {JInt(-10), JInt(-5), JInt(2), JInt(10),
               JStr(<<"A">>), JStr(<<"B">>), JStr(<<"b">>)} }

-----------------------------------------------------------------------------
(* A4.2 token readers: parse_numbers, parse_integers, read_tokens *)

MaxTextLen == 5       \* characters in an input file

TextChars == {"1", "-", "x", " ", "\n"}

Parsers == {"parse_numbers", "parse_integers", "read_tokens"}

\* str.splitlines(): pieces between line breaks, no piece after a final one
RECURSIVE SplitLines(_)
SplitLines(s) ==
    IF s = <<>> THEN <<>>
    ELSE IF \E k \in 1..Len(s) : s[k] = "\n"
    THEN LET k == CHOOSE k \in 1..Len(s) :
                    s[k] = "\n" /\ \A j \in 1..(k - 1) : s[j] # "\n"
         IN  <<SubSeq(s, 1, k - 1)>> \o SplitLines(SubSeq(s, k + 1, Len(s)))
    ELSE <<s>>

\* length of the run of non-blank characters at the head of s
RECURSIVE WordLen(_)
WordLen(s) ==
    IF s = <<>> \/ IsSpace(Head(s)) THEN 0 ELSE 1 + WordLen(Tail(s))

\* str.split(): the maximal runs of non-blank characters
RECURSIVE SplitWs(_)
SplitWs(s) ==
    LET t == LStrip(s) IN
    IF t = <<>> THEN <<>>
    ELSE <<SubSeq(t, 1, WordLen(t))>>
            \o SplitWs(SubSeq(t, WordLen(t) + 1, Len(t)))

\* (mutation of the line handling: the stripped line taken as one token)
LineTokens_NoSplit(raw) ==
    IF Strip(raw) = <<>> THEN <<>> ELSE <<Strip(raw)>>

\* raw = raw.strip(); if not raw: continue; raw.split()
LineTokens(raw) ==
    IF Strip(raw) = <<>> THEN <<>> ELSE SplitWs(Strip(raw))

\* the error entry "Line {line_no}: invalid ... -> {token!r}"
ErrorEntry(ln, token) == [line_no |-> ln, token |-> token]

\* parse_numbers, lines 22-31: one line of the file
parse_numbers_line ==
    /\ parse_pc = "lines"
    /\ parser = "parse_numbers"
    /\ line_no < Len(SplitLines(text))
    /\ LET tokens == LineTokens(SplitLines(text)[line_no + 1])
           Good(token) == py_float(JStr(token)).ok
           Bad(token) == ~py_float(JStr(token)).ok
           good == SelectSeq(tokens, Good)
           bad == SelectSeq(tokens, Bad)
       IN  /\ parsed' = parsed \o
                 [k \in 1..Len(good) |-> py_float(JStr(good[k])).val]
           /\ parse_errors' = parse_errors \o
                 [k \in 1..Len(bad) |-> ErrorEntry(line_no + 1, bad[k])]
    /\ line_no' = line_no + 1
    /\ UNCHANGED <<text, parser, parse_pc>>
    /\ UNCHANGED <<crudVars, salesVars, modeVars, convVars>>

\* parse_integers, lines 24-33: one line of the file
parse_integers_line ==
    /\ parse_pc = "lines"
    /\ parser = "parse_integers"
    /\ line_no < Len(SplitLines(text))
    /\ LET tokens == LineTokens(SplitLines(text)[line_no + 1])
           Good(token) == IsIntLiteral(token)
           Bad(token) == ~IsIntLiteral(token)
           good == SelectSeq(tokens, Good)
           bad == SelectSeq(tokens, Bad)
       IN  /\ parsed' = parsed \o
                 [k \in 1..Len(good) |-> IntOfLiteral(good[k])]
           /\ parse_errors' = parse_errors \o
                 [k \in 1..Len(bad) |-> ErrorEntry(line_no + 1, bad[k])]
    /\ line_no' = line_no + 1
    /\ UNCHANGED <<text, parser, parse_pc>>
    /\ UNCHANGED <<crudVars, salesVars, modeVars, convVars>>

\* read_tokens, lines 22-32: one line of the file
read_tokens_line ==
    /\ parse_pc = "lines"
    /\ parser = "read_tokens"
    /\ line_no < Len(SplitLines(text))
    /\ LET parts == LineTokens(SplitLines(text)[line_no + 1])
           Good(part) == part # <<>>
           Bad(part) == part = <<>>
           bad == SelectSeq(parts, Bad)
       IN  /\ parsed' = parsed \o SelectSeq(parts, Good)
           /\ parse_errors' = parse_errors \o
                 [k \in 1..Len(bad) |-> ErrorEntry(line_no + 1, bad[k])]
    /\ line_no' = line_no + 1
    /\ UNCHANGED <<text, parser, parse_pc>>
    /\ UNCHANGED <<crudVars, salesVars, modeVars, convVars>>

\* the loop over the lines is exhausted: return values, errors
parser_return ==
    /\ parse_pc = "lines"
    /\ line_no = Len(SplitLines(text))
    /\ parse_pc' = "returned"
    /\ UNCHANGED <<text, parser, line_no, parsed, parse_errors>>
    /\ UNCHANGED <<crudVars, salesVars, modeVars, convVars>>

-----------------------------------------------------------------------------
(* A4.2 computeStatistics.py: mode *)

MaxValues == 4        \* values in the list given to mode

ModeValues == {-2, 0, 1, 3}

NoMode == [none |-> TRUE]               \* return None
ModeIs(v) == [none |-> FALSE, val |-> v]

\* position of val among the keys of freq, 0 when it is no key
FreqIndex(f, val) ==
    IF \E i \in 1..Len(f) : f[i].val = val
    THEN CHOOSE i \in 1..Len(f) : f[i].val = val
    ELSE 0

\* freq[v] = freq.get(v, 0) + 1 on a dict that keeps insertion order
FreqAdd(f, v) ==
    IF FreqIndex(f, v) = 0 THEN Append(f, [val |-> v, count |-> 1])
    ELSE [f EXCEPT ![FreqIndex(f, v)].count = @ + 1]

\* min(modes)
MinOf(s) == CHOOSE m \in {s[i] : i \in 1..Len(s)} :
                \A i \in 1..Len(s) : m <= s[i]

\* (mutation of the return: the first mode met instead of the smallest)
ModeResult_First(count, found) ==
    IF count <= 1 THEN NoMode ELSE ModeIs(Head(found))

\* lines 73-75
ModeResult(count, found) ==
    IF count <= 1 THEN NoMode ELSE ModeIs(MinOf(found))

\* lines 61-62: one iteration of the counting loop
mode_count ==
    /\ mode_pc = "count"
    /\ mode_k < Len(mode_input)
    /\ freq' = FreqAdd(freq, mode_input[mode_k + 1])
    /\ IF mode_k + 1 = Len(mode_input)
       THEN mode_pc' = "scan" /\ mode_k' = 0
       ELSE mode_pc' = "count" /\ mode_k' = mode_k + 1
    /\ UNCHANGED <<mode_input, max_count, modes, mode_result>>
    /\ UNCHANGED <<crudVars, salesVars, textVars, convVars>>

\* lines 66-71: one iteration of the loop over freq.items()
mode_scan ==
    /\ mode_pc = "scan"
    /\ mode_k < Len(freq)
    /\ LET val == freq[mode_k + 1].val
           count == freq[mode_k + 1].count
       IN  IF count > max_count
           THEN max_count' = count /\ modes' = <<val>>
           ELSE IF count = max_count
           THEN modes' = Append(modes, val) /\ UNCHANGED max_count
           ELSE UNCHANGED <<max_count, modes>>
    /\ mode_k' = mode_k + 1
    /\ UNCHANGED <<mode_input, freq, mode_pc, mode_result>>
    /\ UNCHANGED <<crudVars, salesVars, textVars, convVars>>

\* lines 73-75
mode_return ==
    /\ mode_pc = "scan"
    /\ mode_k = Len(freq)
    /\ mode_result' = ModeResult(max_count, modes)
    /\ mode_pc' = "returned"
    /\ UNCHANGED <<mode_input, freq, max_count, modes, mode_k>>
    /\ UNCHANGED <<crudVars, salesVars, textVars, convVars>>

-----------------------------------------------------------------------------
(* A4.2 convertNumbers.py: to_binary, to_hexadecimal *)

MaxMagnitude == 300   \* |n| of the integers converted

HEX_DIGITS ==
    <<"0", "1", "2", "3", "4", "5", "6", "7", "8", "9",
      "A", "B", "C", "D", "E", "F">>

Converters == {"to_binary", "to_hexadecimal"}

\* the divisor of the repeated division
Base(fn) == IF fn = "to_binary" THEN 2 ELSE 16

\* str(n % 2), HEX_DIGITS[n % 16]
DigitOf(fn, d) == IF fn = "to_binary" THEN str_int(d)[1] ELSE HEX_DIGITS[d + 1]

\* (mutation of list.reverse(): the digits left least significant first)
Reversed_Not(s) == s

\* list.reverse()
Reversed(s) == [i \in 1..Len(s) |-> s[Len(s) + 1 - i]]

\* lines 40-45 / 57-62: the zero case and the sign
convert_enter ==
    /\ conv_pc = "enter"
    /\ IF conv_n = 0
       THEN /\ conv_result' = <<"0">>
            /\ conv_pc' = "returned"
            /\ UNCHANGED <<conv_n, conv_sign>>
       ELSE /\ conv_sign' = IF conv_n < 0 THEN <<"-">> ELSE <<>>
            /\ conv_n' = IF conv_n < 0 THEN -conv_n ELSE conv_n
            /\ conv_pc' = "loop"
            /\ UNCHANGED conv_result
    /\ UNCHANGED <<conv_fn, conv_input, conv_digits>>
    /\ UNCHANGED <<crudVars, salesVars, textVars, modeVars>>

\* lines 48-50 / 65-67: one iteration of `while n > 0`
convert_digit ==
    /\ conv_pc = "loop"
    /\ conv_n > 0
    /\ conv_digits' = Append(conv_digits,
                             DigitOf(conv_fn, conv_n % Base(conv_fn)))
    /\ conv_n' = conv_n \div Base(conv_fn)
    /\ UNCHANGED <<conv_fn, conv_input, conv_sign, conv_pc, conv_result>>
    /\ UNCHANGED <<crudVars, salesVars, textVars, modeVars>>

\* lines 51-52 / 68-69: reverse and join behind the sign
convert_return ==
    /\ conv_pc = "loop"
    /\ conv_n = 0
    /\ conv_result' = conv_sign \o Reversed(conv_digits)
    /\ conv_pc' = "returned"
    /\ UNCHANGED <<conv_fn, conv_input, conv_n, conv_sign, conv_digits>>
    /\ UNCHANGED <<crudVars, salesVars, textVars, modeVars>>

-----------------------------------------------------------------------------
(* Initial states and specifications *)

SalesInit(catalogs, sales) ==
    /\ catalog_file \in catalogs
    /\ sales_file \in sales
    /\ pc = "start"
    /\ prices = EmptyDict
    /\ sales_data = JList(<<>>)
    /\ idx = 0
    /\ grouped = <<>>
    /\ grand_total = 0
    /\ error_count = 0
    /\ report = NoReport
    /\ stderr = <<>>
    /\ results_file = <<>>
    /\ exit_code = NotExited

\* no run of computeSales.py is in progress
SalesIdle ==
    /\ catalog_file = Missing
    /\ sales_file = Missing
    /\ pc = "idle"
    /\ prices = EmptyDict
    /\ sales_data = JList(<<>>)
    /\ idx = 0
    /\ grouped = <<>>
    /\ grand_total = 0
    /\ error_count = 0
    /\ report = NoReport
    /\ stderr = <<>>
    /\ results_file = <<>>
    /\ exit_code = NotExited

\* the files of data/ hold nothing and no call has been made
CrudIdle ==
    /\ hotels = <<>>
    /\ reservations = <<>>
    /\ call = NoCall
    /\ out = ""
    /\ customers = <<>>
    /\ returned = JNull
    /\ inv = [p \in Procs |-> NoInvocation]
    /\ log = <<>>

\* no token reader, mode or conversion call is in progress
TextIdle ==
    /\ text = <<>>
    /\ parser = "none"
    /\ line_no = 0
    /\ parsed = <<>>
    /\ parse_errors = <<>>
    /\ parse_pc = "idle"

ModeIdle ==
    /\ mode_input = <<>>
    /\ freq = <<>>
    /\ max_count = 0
    /\ modes = <<>>
    /\ mode_k = 0
    /\ mode_result = NoMode
    /\ mode_pc = "idle"

ConvIdle ==
    /\ conv_fn = "none"
    /\ conv_input = 0
    /\ conv_n = 0
    /\ conv_sign = <<>>
    /\ conv_digits = <<>>
    /\ conv_result = <<>>
    /\ conv_pc = "idle"

UtilIdle == TextIdle /\ ModeIdle /\ ConvIdle

SalesNext ==
    \/ main_start
    \/ parse_sales_row
    \/ main_report
    \/ main_write

SalesFiles(rows, n) ==
    {Missing, InvalidJson, JObject} \cup {JList(s) : s \in SeqsUpTo(rows, n)}

InitSales ==
    /\ CrudIdle /\ UtilIdle
    /\ SalesInit(CatalogFiles, SalesFiles(ValidationRows, MaxRows))

InitDates ==
    /\ CrudIdle /\ UtilIdle
    /\ SalesInit({GoodCatalog}, SalesFiles(DateRows, MaxDateRows))

InitOrder ==
    /\ CrudIdle /\ UtilIdle
    /\ SalesInit({GoodCatalog}, SalesFiles(OrderRows, MaxOrderRows))

SpecSales == InitSales /\ [][SalesNext]_vars

SpecDates == InitDates /\ [][SalesNext]_vars

SpecOrder == InitOrder /\ [][SalesNext]_vars

\* a reader is called on a file holding any text of the alphabet
InitTokens ==
    /\ CrudIdle /\ SalesIdle /\ ModeIdle /\ ConvIdle
    /\ text \in SeqsUpTo(TextChars, MaxTextLen)
    /\ parser \in Parsers
    /\ line_no = 0
    /\ parsed = <<>>
    /\ parse_errors = <<>>
    /\ parse_pc = "lines"

TokensNext ==
    \/ parse_numbers_line
    \/ parse_integers_line
    \/ read_tokens_line
    \/ parser_return

SpecTokens == InitTokens /\ [][TokensNext]_vars

\* mode is called on any non-empty list
InitMode ==
    /\ CrudIdle /\ SalesIdle /\ TextIdle /\ ConvIdle
    /\ mode_input \in SeqsUpTo(ModeValues, MaxValues) \ {<<>>}
    /\ freq = <<>>
    /\ max_count = 0
    /\ modes = <<>>
    /\ mode_k = 0
    /\ mode_result = NoMode
    /\ mode_pc = "count"

ModeNext ==
    \/ mode_count
    \/ mode_scan
    \/ mode_return

SpecMode == InitMode /\ [][ModeNext]_vars

\* to_binary or to_hexadecimal is called on any integer of the range
InitConvert ==
    /\ CrudIdle /\ SalesIdle /\ TextIdle /\ ModeIdle
    /\ conv_fn \in Converters
    /\ conv_input \in (-MaxMagnitude)..MaxMagnitude
    /\ conv_n = conv_input
    /\ conv_sign = <<>>
    /\ conv_digits = <<>>
    /\ conv_result = <<>>
    /\ conv_pc = "enter"

ConvertNext ==
    \/ convert_enter
    \/ convert_digit
    \/ convert_return

SpecConvert == InitConvert /\ [][ConvertNext]_vars

Init == CrudIdle /\ SalesIdle /\ UtilIdle

Next ==
    \/ CreateHotel
    \/ CreateReservation
    \/ CancelReservation

Spec == Init /\ [][Next]_vars

\* the customer and hotel operations, called in any order on files that
\* start empty
StoreNext ==
    \/ CreateCustomer
    \/ DeleteCustomer
    \/ DisplayCustomer
    \/ ModifyCustomer
    \/ CreateHotelInStore
    \/ DeleteHotel
    \/ DisplayHotel
    \/ ModifyHotel

SpecStore == Init /\ [][StoreNext]_vars

\* one hotel is on file, nothing else, and each of the two invocations is
\* about to run its first line
InitRace ==
    /\ SalesIdle /\ UtilIdle
    /\ \E k \in RaceRooms :
          hotels = <<[hotel_id |-> 1, name |-> "HotelTest",
                      location |-> "CDMX", rooms |-> k,
                      reservations |-> <<>>]>>
    /\ reservations = <<>>
    /\ customers = <<>>
    /\ call = NoCall
    /\ out = ""
    /\ returned = JNull
    /\ inv \in [Procs -> Invocations]
    /\ log = <<>>

RaceNext ==
    \/ LoadCustomers
    \/ SaveCustomers
    \/ LoadReservations
    \/ LoadHotels
    \/ SaveReservations
    \/ SaveHotels

SpecRace == InitRace /\ [][RaceNext]_vars

-----------------------------------------------------------------------------
(* Claims about the reservation store, checked under Spec *)

\* the record create_reservation(_, _, hotel_id) acts on: the first one the
\* scan meets
HotelOf(hs, hotel_id) == hs[FirstHotelIndex(hs, hotel_id)]

\* C1: create_reservation(r, c, h) for an existing hotel h changes neither
\* the reservations array nor the hotels array when h already embeds exactly
\* `rooms` reservation ids, and appends exactly one record to the
\* reservations array and r to h's embedded list when it embeds fewer.
C1_CapacityRule ==
    [][ (/\ call'.op = "create_reservation"
         /\ FirstHotelIndex(hotels, call'.hotel_id) # 0)
        => LET i == FirstHotelIndex(hotels, call'.hotel_id)
               h == hotels[i]
           IN /\ Len(h.reservations) = h.rooms
                   => /\ reservations' = reservations
                      /\ hotels' = hotels
              /\ Len(h.reservations) < h.rooms
                   => /\ reservations' = Append(reservations,
                             [reservation_id |-> call'.reservation_id,
                              customer_id |-> call'.customer_id,
                              hotel_id |-> call'.hotel_id])
                      /\ hotels'[i].reservations =
                             Append(h.reservations, call'.reservation_id)
                      /\ \A j \in (1..Len(hotels)) \ {i} :
                             hotels'[j] = hotels[j]
      ]_vars

\* C1 witness: a creation was just refused at a hotel with rooms whose
\* embedded list is exactly full.
C1_Witness ==
    /\ call.op = "create_reservation"
    /\ out = "No rooms available"
    /\ FirstHotelIndex(hotels, call.hotel_id) # 0
    /\ HotelOf(hotels, call.hotel_id).rooms > 0
    /\ Len(HotelOf(hotels, call.hotel_id).reservations)
          = HotelOf(hotels, call.hotel_id).rooms

\* the reservation_id values of the standalone records whose hotel_id is h
ReservationIdsAt(h) ==
    LET AtH(r) == r.hotel_id = h
        recs == SelectSeq(reservations, AtH)
    IN [k \in 1..Len(recs) |-> recs[k].reservation_id]

\* C2: for every hotel id h on file, the ids embedded in h's record and the
\* reservation_id values of the standalone records with hotel_id h are the
\* same collection (each id occurs equally often in both).
C2_BothPlacesConsistent ==
    \A h \in HotelIds :
        FirstHotelIndex(hotels, h) # 0 =>
            \A r \in ReservationIds :
                CountIn(r, HotelOf(hotels, h).reservations)
                    = CountIn(r, ReservationIdsAt(h))

\* reservation_id occurs in neither store: no standalone record carries it
\* and no hotel record embeds it
InNeitherStore(reservation_id) ==
    /\ \A k \in 1..Len(reservations) :
           reservations[k].reservation_id # reservation_id
    /\ \A i \in 1..Len(hotels) :
           ~InSeq(reservation_id, hotels[i].reservations)

\* C11: a create_reservation call that is rejected, because no hotel has the
\* given hotel_id or because the hotel has no room available, leaves the
\* reservations array and the hotels array (embedded lists included) exactly
\* as they were; cancel_reservation of an id that is in neither store leaves
\* the contents of both stores unchanged.
C11_RejectedCallsChangeNothing ==
    [][ /\ (/\ call'.op = "create_reservation"
            /\ \/ \A i \in 1..Len(hotels) :
                      hotels[i].hotel_id # call'.hotel_id
               \/ \E i \in 1..Len(hotels) :
                      /\ i = FirstHotelIndex(hotels, call'.hotel_id)
                      /\ hotels[i].rooms <= Len(hotels[i].reservations)
               \/ out' \in {"Hotel not found", "No rooms available"})
           => /\ reservations' = reservations
              /\ hotels' = hotels
        /\ (/\ call'.op = "cancel_reservation"
            /\ InNeitherStore(call'.reservation_id))
           => /\ reservations' = reservations
              /\ hotels' = hotels
      ]_vars

\* C11 witness: a creation was just rejected for an unknown hotel id while
\* both stores hold records, one of them embedded in a hotel.
C11_Witness ==
    /\ call.op = "create_reservation"
    /\ out = "Hotel not found"
    /\ reservations # <<>>
    /\ \E i \in 1..Len(hotels) : hotels[i].reservations # <<>>

\* C15: in every state reached by create_hotel (rooms >= 0),
\* create_reservation and cancel_reservation calls, every hotel record holds
\* at most `rooms` embedded reservation ids, also when hotel records share a
\* hotel_id and when reservation ids repeat.
C15_NoHotelOverbooked ==
    \A i \in 1..Len(hotels) :
        Len(hotels[i].reservations) <= hotels[i].rooms

\* C15 witness: two hotel records share a hotel_id, and one record is full
\* with the same reservation id embedded twice.
C15_Witness ==
    /\ \E i, j \in 1..Len(hotels) :
           i # j /\ hotels[i].hotel_id = hotels[j].hotel_id
    /\ \E i \in 1..Len(hotels) :
           /\ Len(hotels[i].reservations) = hotels[i].rooms
           /\ \E r \in ReservationIds :
                  CountIn(r, hotels[i].reservations) >= 2

-----------------------------------------------------------------------------
(* Claims about the customer and hotel operations, checked under SpecStore *)

\* C12: for any prior contents of the store, display_customer(id) called
\* right after create_customer(id, name, email) returns a record whose name
\* and email are the ones just given, and display_hotel(id) right after
\* create_hotel returns the hotel just created; display of an id right after
\* delete_customer(id) or delete_hotel(id) returns nothing.
C12_DisplayAfterCreateOrDelete ==
    [][ /\ (/\ call.op = "create_customer"
            /\ call'.op = "display_customer"
            /\ call'.customer_id = call.customer_id)
           => /\ returned' # JNull
              /\ returned'.record.name = call.name
              /\ returned'.record.email = call.email
        /\ (/\ call.op = "create_hotel"
            /\ call'.op = "display_hotel"
            /\ call'.hotel_id = call.hotel_id)
           => returned' = Found([hotel_id |-> call.hotel_id,
                                 name |-> call.name,
                                 location |-> call.location,
                                 rooms |-> call.rooms,
                                 reservations |-> <<>>])
        /\ (/\ call.op = "delete_customer"
            /\ call'.op = "display_customer"
            /\ call'.customer_id = call.customer_id)
           => returned' = JNull
        /\ (/\ call.op = "delete_hotel"
            /\ call'.op = "display_hotel"
            /\ call'.hotel_id = call.hotel_id)
           => returned' = JNull
      ]_vars

\* C12 where the id just created is carried by no earlier record, and the
\* two delete cases as claimed.
C12_DisplayAfterCreateOfFreshId ==
    [][ /\ (/\ call.op = "create_customer"
            /\ call'.op = "display_customer"
            /\ call'.customer_id = call.customer_id
            /\ FirstCustomerIndex(customers, call.customer_id)
                  = Len(customers))
           => /\ returned' # JNull
              /\ returned'.record.name = call.name
              /\ returned'.record.email = call.email
        /\ (/\ call.op = "create_hotel"
            /\ call'.op = "display_hotel"
            /\ call'.hotel_id = call.hotel_id
            /\ FirstHotelIndex(hotels, call.hotel_id) = Len(hotels))
           => returned' = Found([hotel_id |-> call.hotel_id,
                                 name |-> call.name,
                                 location |-> call.location,
                                 rooms |-> call.rooms,
                                 reservations |-> <<>>])
        /\ (/\ call.op = "delete_customer"
            /\ call'.op = "display_customer"
            /\ call'.customer_id = call.customer_id)
           => returned' = JNull
        /\ (/\ call.op = "delete_hotel"
            /\ call'.op = "display_hotel"
            /\ call'.hotel_id = call.hotel_id)
           => returned' = JNull
      ]_vars

\* the value a field takes under the claim of C13: the argument when one
\* other than None was passed, the old value otherwise
SetIfGiven(old, arg) == IF arg # JNull THEN arg.v ELSE old

\* C13: modify_customer and modify_hotel set, on the record with the given
\* id, exactly the fields for which a value other than None was passed
\* (rooms = 0 and the empty string included) to the passed value, and leave
\* every other field of that record and every other record unchanged; when
\* no record has the given id the store is unchanged and no record is
\* created.
C13_ModifySetsGivenFields ==
    [][ /\ call'.op = "modify_customer"
           => /\ Len(customers') = Len(customers)
              /\ hotels' = hotels
              /\ \A i \in 1..Len(customers) :
                    customers'[i] =
                        IF customers[i].customer_id = call'.customer_id
                        THEN [customers[i] EXCEPT
                                !.name = SetIfGiven(@, call'.name),
                                !.email = SetIfGiven(@, call'.email)]
                        ELSE customers[i]
        /\ call'.op = "modify_hotel"
           => /\ Len(hotels') = Len(hotels)
              /\ customers' = customers
              /\ \A i \in 1..Len(hotels) :
                    hotels'[i] =
                        IF hotels[i].hotel_id = call'.hotel_id
                        THEN [hotels[i] EXCEPT
                                !.name = SetIfGiven(@, call'.name),
                                !.location = SetIfGiven(@, call'.location),
                                !.rooms = SetIfGiven(@, call'.rooms)]
                        ELSE hotels[i]
      ]_vars

\* no argument of the call is the empty string or 0
NoFalsyArgument(c) ==
    /\ c.op = "modify_customer"
          => Given("") \notin {c.name, c.email}
    /\ c.op = "modify_hotel"
          => /\ Given("") \notin {c.name, c.location}
             /\ c.rooms # Given(0)

\* C13 for the calls that pass no empty string and no 0.
C13_ModifyWithoutFalsyArguments ==
    [][ NoFalsyArgument(call') =>
        /\ call'.op = "modify_customer"
           => /\ Len(customers') = Len(customers)
              /\ hotels' = hotels
              /\ \A i \in 1..Len(customers) :
                    customers'[i] =
                        IF customers[i].customer_id = call'.customer_id
                        THEN [customers[i] EXCEPT
                                !.name = SetIfGiven(@, call'.name),
                                !.email = SetIfGiven(@, call'.email)]
                        ELSE customers[i]
        /\ call'.op = "modify_hotel"
           => /\ Len(hotels') = Len(hotels)
              /\ customers' = customers
              /\ \A i \in 1..Len(hotels) :
                    hotels'[i] =
                        IF hotels[i].hotel_id = call'.hotel_id
                        THEN [hotels[i] EXCEPT
                                !.name = SetIfGiven(@, call'.name),
                                !.location = SetIfGiven(@, call'.location),
                                !.rooms = SetIfGiven(@, call'.rooms)]
                        ELSE hotels[i]
      ]_vars

-----------------------------------------------------------------------------
(* Claims about invocations running side by side, checked under SpecRace *)

Files == {"customers", "reservations", "hotels"}

\* the contents of a file, and an invocation's own list for that file
FileContents(f) ==
    CASE f = "customers" -> customers
      [] f = "reservations" -> reservations
      [] f = "hotels" -> hotels

Snapshot(p, f) ==
    CASE f = "customers" -> inv[p].customers
      [] f = "reservations" -> inv[p].reservations
      [] f = "hotels" -> inv[p].hotels

\* positions in the log of the loads and of the saves of file f
LoadsOf(f) == {k \in 1..Len(log) : log[k].what = "load" /\ log[k].file = f}
SavesOf(f) == {k \in 1..Len(log) : log[k].what = "save" /\ log[k].file = f}

\* the invocation that saved file f last, 0 when nobody has
LastWriter(f) ==
    IF SavesOf(f) = {} THEN 0
    ELSE log[CHOOSE k \in SavesOf(f) : \A j \in SavesOf(f) : j <= k].proc

\* both invocations loaded file f before either saved it, and both saved it
BothLoadedBeforeEitherSaved(f) ==
    /\ \A p \in Procs : \E k \in LoadsOf(f) : log[k].proc = p
    /\ \A p \in Procs : \E k \in SavesOf(f) : log[k].proc = p
    /\ \A k \in LoadsOf(f), j \in SavesOf(f) : k < j

\* C14: the read-modify-write of the CRUD layer is last-write-wins: a file
\* that has been saved holds exactly the list of the invocation that saved
\* it last; and when two create_customer calls, or two create_reservation
\* calls, both load the file before either saves, the file ends up holding
\* only the last writer's record, the other invocation's record being lost.
C14_LastWriteWins ==
    /\ \A f \in Files :
          LastWriter(f) # 0 => FileContents(f) = Snapshot(LastWriter(f), f)
    /\ \A f \in {"customers", "reservations"} :
          BothLoadedBeforeEitherSaved(f)
             => /\ Len(FileContents(f)) = 1
                /\ FileContents(f)[1] = inv[LastWriter(f)].record

\* C14 witness: two create_reservation calls for the same hotel with
\* different reservation ids have both returned; the reservations array
\* holds only the record of the one that saved it last, the other's record
\* is lost, and the hotel's embedded list names the other id.
C14_Witness ==
    \E p, q \in Procs :
        /\ p # q
        /\ inv[p].op = "create_reservation" /\ inv[p].pc = "done"
        /\ inv[q].op = "create_reservation" /\ inv[q].pc = "done"
        /\ inv[p].record.reservation_id # inv[q].record.reservation_id
        /\ BothLoadedBeforeEitherSaved("reservations")
        /\ reservations = <<inv[q].record>>
        /\ hotels[1].reservations = <<inv[p].record.reservation_id>>

\* two create_customer calls with different ids have both returned and the
\* file holds one record only
C14_CustomerLost ==
    \E p, q \in Procs :
        /\ p # q
        /\ inv[p].op = "create_customer" /\ inv[p].pc = "done"
        /\ inv[q].op = "create_customer" /\ inv[q].pc = "done"
        /\ inv[p].record # inv[q].record
        /\ customers = <<inv[q].record>>

-----------------------------------------------------------------------------
(* Claims about computeSales.py *)

\* parse_sales has been entered with a list and has not been left by an
\* exception
InParseOrAfter ==
    /\ pc \in {"rows", "write", "exited"}
    /\ sales_data.t = "list"

\* parse_sales has returned normally from its loop over a list
ParseReturned ==
    /\ pc \in {"write", "exited"}
    /\ sales_data.t = "list"
    /\ exit_code # UsageExit

\* the rows handled so far
RowsDone == SubSeq(sales_data.items, 1, idx)

\* a row passes every validation of parse_sales
Accepted(row) == RowOutcome(row, prices).kind = "item"

\* sum of quantity x unit price over the accepted rows of a list
RECURSIVE AcceptedSum(_)
AcceptedSum(rows) ==
    IF rows = <<>> THEN 0
    ELSE (IF Accepted(Head(rows))
          THEN py_float(Head(rows).Quantity).val * prices[Head(rows).Product.s]
          ELSE 0) + AcceptedSum(Tail(rows))

RECURSIVE SumSubtotals(_)
SumSubtotals(g) ==
    IF g = <<>> THEN 0 ELSE subtotal(Head(g)) + SumSubtotals(Tail(g))

RECURSIVE CountItems(_)
CountItems(g) ==
    IF g = <<>> THEN 0 ELSE Len(Head(g).items) + CountItems(Tail(g))

\* C3: the grand total equals the sum of quantity x unit price over exactly
\* the accepted rows, and equals the sum of the subtotals of the groups
\* (after every row handled, hence for the values parse_sales returns).
C3_GrandTotal ==
    InParseOrAfter =>
        /\ grand_total = AcceptedSum(RowsDone)
        /\ grand_total = SumSubtotals(grouped)
        /\ pc \in {"write", "exited"} =>
              /\ idx = Len(sales_data.items)
              /\ report.grand_total = grand_total

\* C3 witness: a run ended whose rows include a skipped one and accepted ones
\* of two products, with a non-zero total.
C3_Witness ==
    /\ ParseReturned
    /\ pc = "exited"
    /\ error_count >= 1
    /\ CountItems(grouped) >= 2
    /\ \E i \in 1..Len(grouped) : \E j \in 1..Len(grouped[i].items) :
          grouped[i].items[j].product = Quill
    /\ \E i \in 1..Len(grouped) : \E j \in 1..Len(grouped[i].items) :
          grouped[i].items[j].product = Pen
    /\ grand_total # 0

\* every item sits in the group keyed by the text of its row's SALE_ID and
\* names a catalogue product
ItemsWellPlaced ==
    \A i \in 1..Len(grouped) :
        /\ \A j \in 1..Len(grouped[i].items) :
              grouped[i].items[j].product \in DOMAIN prices
        /\ Len(grouped[i].items) =
              Cardinality({k \in 1..idx :
                  /\ Accepted(sales_data.items[k])
                  /\ py_str(sales_data.items[k].SALE_ID) = grouped[i].sale_id})
        /\ \A j \in (1..Len(grouped)) \ {i} :
              grouped[j].sale_id # grouped[i].sale_id

\* what C4 says of the rows that parse_sales does handle
C4_HandledRowsAccounted ==
    InParseOrAfter =>
        /\ error_count + CountItems(grouped) = idx
        /\ ItemsWellPlaced
        /\ pc \in {"write", "exited"} => idx = Len(sales_data.items)

\* C4: parse_sales never aborts and handles each row exactly once: a row
\* becomes one item of the group keyed by str(SALE_ID) or adds one to the
\* error counter, so error_count plus the number of items equals the number
\* of rows; a row with an unknown product is an error and in no group.
C4_EveryRowHandledOnce ==
    /\ pc # "crashed"
    /\ C4_HandledRowsAccounted

\* the file at `path` cannot be opened
Unreadable(file) == file.t = "missing"

\* the value is a list none of whose rows carries an out-of-range quantity
NoHugeQuantity(file) ==
    file.t = "list" =>
        \A k \in 1..Len(file.items) :
            file.items[k].t = "dict" => file.items[k].Quantity # JBigInt

\* C5: a run in which an input file is missing ends with a non-zero exit
\* code, and a run whose only faults are malformed catalogue entries,
\* malformed rows, unknown products or non-numeric quantities ends with 0.
C5_FatalOnlyOnMissingInput ==
    pc \in {"exited", "crashed"} =>
        /\ (Unreadable(catalog_file) \/ Unreadable(sales_file))
              => exit_code # SuccessExit
        /\ (/\ catalog_file.t = "list"
            /\ sales_file.t = "list"
            /\ NoHugeQuantity(sales_file)
            /\ ~InSeq("Usage", stderr)
            /\ ~InSeq("Could not write results file", stderr))
              => exit_code = SuccessExit

\* the second half of C5 alone
C5_RowFaultsNotFatal ==
    (/\ pc \in {"exited", "crashed"}
     /\ catalog_file.t = "list"
     /\ sales_file.t = "list"
     /\ NoHugeQuantity(sales_file)
     /\ ~InSeq("Usage", stderr)
     /\ ~InSeq("Could not write results file", stderr))
       => exit_code = SuccessExit

\* the order C6 asks of two identifiers a, b printed in this order
InClaimedOrder(a, b) ==
    /\ (IsIntLiteral(a) /\ IsIntLiteral(b))
          => IntOfLiteral(a) <= IntOfLiteral(b)
    /\ (~IsIntLiteral(a) /\ ~IsIntLiteral(b)) => ~StrLess(b, a)
    /\ ~(~IsIntLiteral(a) /\ IsIntLiteral(b))

\* C6: in the report, of two integer identifiers the smaller value comes
\* first (negative ones included), two non-integer identifiers are in
\* lexical order, and every integer identifier precedes every other one.
C6_ReportOrder ==
    pc \in {"write", "exited"} =>
        \A i, j \in 1..Len(report.groups) :
            i < j => InClaimedOrder(report.groups[i].sale_id,
                                    report.groups[j].sale_id)

\* C6 restricted to identifiers that are not negative integers
C6_OrderWithoutNegatives ==
    pc \in {"write", "exited"} =>
        \A i, j \in 1..Len(report.groups) :
            LET a == report.groups[i].sale_id
                b == report.groups[j].sale_id
            IN  (i < j /\ Head(a) # "-" /\ Head(b) # "-")
                    => InClaimedOrder(a, b)

\* a missing, null or empty SALE_Date
EmptyDate(d) == d = Absent \/ d = JNull \/ d = JStr(<<>>)

\* the first non-empty date among the accepted rows with this key
RECURSIVE FirstDate(_, _)
FirstDate(rows, key) ==
    IF rows = <<>> THEN <<>>
    ELSE IF /\ Accepted(Head(rows))
            /\ py_str(Head(rows).SALE_ID) = key
            /\ ~EmptyDate(Head(rows).SALE_Date)
         THEN Head(rows).SALE_Date.s
         ELSE FirstDate(Tail(rows), key)

\* C7: a group's date is the first non-empty SALE_Date among the accepted
\* rows of its identifier, and is empty when none of them carries one (a
\* missing, null or empty SALE_Date counting as empty).
C7_FirstNonEmptyDate ==
    InParseOrAfter =>
        \A i \in 1..Len(grouped) :
            grouped[i].sale_date = FirstDate(RowsDone, grouped[i].sale_id)

\* C7 restricted to groups none of whose rows gives null as the date
C7_DatesWithoutNull ==
    InParseOrAfter =>
        \A i \in 1..Len(grouped) :
            \/ \E k \in 1..idx : sales_data.items[k].SALE_Date = JNull
            \/ grouped[i].sale_date = FirstDate(RowsDone, grouped[i].sale_id)

-----------------------------------------------------------------------------
(* Claims about the A4.2 utilities *)

\* positions of the text where a whitespace-delimited token starts
TokenStarts(s) ==
    {p \in 1..Len(s) : ~IsSpace(s[p]) /\ (p = 1 \/ IsSpace(s[p - 1]))}

\* the token that starts at position p
TokenAt(s, p) ==
    LET end == CHOOSE q \in p..Len(s) :
                  /\ \A j \in p..q : ~IsSpace(s[j])
                  /\ (q = Len(s) \/ IsSpace(s[q + 1]))
    IN  SubSeq(s, p, end)

\* the 1-based number of the line position p lies on
LineOf(s, p) == 1 + Cardinality({j \in 1..(p - 1) : s[j] = "\n"})

\* C8: when a reader returns, accepted values plus error entries number the
\* whitespace-delimited tokens of the text, and every error entry names a
\* token of the text with the number of the line it stands on.
C8_TokensAccounted ==
    parse_pc = "returned" =>
        /\ Len(parsed) + Len(parse_errors) = Cardinality(TokenStarts(text))
        /\ \A k \in 1..Len(parse_errors) :
              \E p \in TokenStarts(text) :
                  /\ TokenAt(text, p) = parse_errors[k].token
                  /\ LineOf(text, p) = parse_errors[k].line_no

\* C8 witness: parse_numbers returned from a text of three tokens with a
\* value accepted and an error recorded, the first error on line 2.
C8_Witness ==
    /\ parse_pc = "returned"
    /\ parser = "parse_numbers"
    /\ Len(parsed) >= 1
    /\ Len(parse_errors) >= 1
    /\ parse_errors[1].line_no = 2
    /\ Cardinality(TokenStarts(text)) >= 3

\* how often the most frequent value of the list occurs
TopCount(values) ==
    CHOOSE c \in 1..Len(values) :
        /\ \E i \in 1..Len(values) : CountIn(values[i], values) = c
        /\ \A i \in 1..Len(values) : CountIn(values[i], values) <= c

\* the values that occur that often
TopValues(values) ==
    {values[i] : i \in {j \in 1..Len(values) :
                          CountIn(values[j], values) = TopCount(values)}}

\* C9: mode returns none exactly when every value occurs once, and
\* otherwise the smallest of the values tied for the highest frequency,
\* whatever the order of the list.
C9_ModeSmallestMostFrequent ==
    mode_pc = "returned" =>
        /\ mode_result.none <=> TopCount(mode_input) = 1
        /\ ~mode_result.none =>
              /\ mode_result.val \in TopValues(mode_input)
              /\ \A v \in TopValues(mode_input) : mode_result.val <= v

\* C9 witness: two values tie for the highest frequency and the larger of
\* them comes first in the list.
C9_Witness ==
    /\ mode_pc = "returned"
    /\ ~mode_result.none
    /\ Cardinality(TopValues(mode_input)) = 2
    /\ mode_input[1] \in TopValues(mode_input)
    /\ mode_input[1] > mode_result.val

\* the digits of the base, in order of value
DigitsOfBase(fn) == SubSeq(HEX_DIGITS, 1, Base(fn))

\* value of a digit character in the base's alphabet
DigitValueIn(fn, c) ==
    (CHOOSE i \in 1..Base(fn) : DigitsOfBase(fn)[i] = c) - 1

\* value of a digit string, most significant first
RECURSIVE ValueInBase(_, _)
ValueInBase(fn, u) ==
    IF u = <<>> THEN 0
    ELSE ValueInBase(fn, SubSeq(u, 1, Len(u) - 1)) * Base(fn)
            + DigitValueIn(fn, u[Len(u)])

\* int(s, base) for a well-formed s
ParseInBase(fn, s) ==
    IF Head(s) = "-" THEN -ValueInBase(fn, Tail(s)) ELSE ValueInBase(fn, s)

\* a leading '-' exactly for n < 0, then digits of the base's alphabet,
\* without a leading zero unless the digits are just "0"
WellFormed(fn, s, n) ==
    LET u == IF s # <<>> /\ Head(s) = "-" THEN Tail(s) ELSE s IN
    /\ s # <<>>
    /\ (Head(s) = "-") <=> (n < 0)
    /\ u # <<>>
    /\ \A i \in 1..Len(u) :
          \E d \in 1..Base(fn) : DigitsOfBase(fn)[d] = u[i]
    /\ (u[1] = "0") => (u = <<"0">> /\ n = 0)

\* C10: the string to_binary(n) / to_hexadecimal(n) returns is a leading
\* '-' for n < 0 followed by digits of the base without a leading zero
\* (just "0" for n = 0), and parsing it in the base gives n back.
C10_RoundTrip ==
    conv_pc = "returned" =>
        /\ WellFormed(conv_fn, conv_result, conv_input)
        /\ ParseInBase(conv_fn, conv_result) = conv_input

\* C10 witness: to_hexadecimal returned a negative number of three digits,
\* a letter digit among them.
C10_Witness ==
    /\ conv_pc = "returned"
    /\ conv_fn = "to_hexadecimal"
    /\ conv_input < 0
    /\ Len(conv_result) = 4
    /\ \E i \in 1..Len(conv_result) : conv_result[i] = "F"
    /\ conv_result[2] # conv_result[4]

====
